---- MODULE Spec2Model ----
(***************************************************************************)
(* A model of pendulum's Period (src/pendulum/period.py): construction    *)
(* from two endpoints, the inversion / absolute bookkeeping, the calendar  *)
(* decomposition, negation, abs, the pickling triple, weekday counting,    *)
(* range iteration and intersection.                                       *)
(*                                                                         *)
(* A point in time is an integer number of ticks since 2023-01-01 00:00;   *)
(* a day has TicksPerDay ticks.  Day 0 is a Sunday.  Every year is taken   *)
(* to be a common year (the endpoints used lie in Dec 2022 .. Apr 2023).   *)
(***************************************************************************)
EXTENDS Integers, Sequences, FiniteSets, TLC

VARIABLES per, args, op, src, ret, ix, rg

vars == <<per, args, op, src, ret, ix, rg>>

\* ------------------------------------------------------------------ bounds
TicksPerDay == 2
NumDays == 35
MaxSpan == 2
MaxPeriods == 2
MaxSteps == 95

\* ------------------------------------------------------ program constants
DaysPerWeek == 7
MONTHS_PER_YEAR == 12

\* ---------------------------------------------------------------- helpers
Abs(x) == IF x < 0 THEN -x ELSE x
Max(x, y) == IF x >= y THEN x ELSE y
Min(x, y) == IF x <= y THEN x ELSE y
\* int(x / y) of Python for y > 0: truncation toward zero
Trunc(x, y) == IF x < 0 THEN -((-x) \div y) ELSE x \div y

\* --------------------------------------------------------------- calendar
YearPattern == <<31, 28, 31, 30, 31, 30, 31, 31, 30, 31, 30, 31>>

RECURSIVE DaysBefore(_)
\* days of the year before month mo (1..12)
DaysBefore(mo) == IF mo = 1 THEN 0 ELSE DaysBefore(mo - 1) + YearPattern[mo - 1]

DaysPerYear == DaysBefore(MONTHS_PER_YEAR) + YearPattern[MONTHS_PER_YEAR]

DayOf(t) == t \div TicksPerDay
TickOfDay(t) == t % TicksPerDay

\* month of the year (1..12) holding day-of-year doy (0-based)
MonthOfDoy(doy) ==
    CHOOSE mo \in 1..MONTHS_PER_YEAR :
        DaysBefore(mo) <= doy /\ doy < DaysBefore(mo) + YearPattern[mo]

\* absolute month index of a time: year * 12 + (month - 1), year 0 being 2023
MonthIndex(t) ==
    LET d == DayOf(t)
    IN  (d \div DaysPerYear) * MONTHS_PER_YEAR + (MonthOfDoy(d % DaysPerYear) - 1)

\* day of the month, 1-based
DayOfMonth(t) ==
    LET doy == DayOf(t) % DaysPerYear
    IN  doy - DaysBefore(MonthOfDoy(doy)) + 1

MonthLen(mi) == YearPattern[(mi % MONTHS_PER_YEAR) + 1]

FromYMD(mi, dom, tick) ==
    ((mi \div MONTHS_PER_YEAR) * DaysPerYear
        + DaysBefore((mi % MONTHS_PER_YEAR) + 1) + dom - 1) * TicksPerDay + tick

\* dt + relativedelta(months=n): the day of the month is clamped to the
\* length of the target month
AddMonths(t, n) ==
    LET mi == MonthIndex(t) + n
    IN  FromYMD(mi, Min(DayOfMonth(t), MonthLen(mi)), TickOfDay(t))

\* 28 Jan 2023 00:00 .. NumDays days later: the endpoints of the periods built
WindowFirst == (DaysBefore(1) + 27) * TicksPerDay
Times == WindowFirst .. (WindowFirst + NumDays * TicksPerDay - 1)

\* ---------------------------------------------------- relativedelta(dt1, dt2)
RECURSIVE RdMonths(_, _, _)
\* the loop that walks the month count back until dt2 + months does not
\* overshoot dt1
RdMonths(dt1, dt2, months) ==
    LET dtm == AddMonths(dt2, months)
    IN  IF dt1 < dt2
        THEN IF dt1 > dtm THEN RdMonths(dt1, dt2, months + 1) ELSE months
        ELSE IF dt1 < dtm THEN RdMonths(dt1, dt2, months - 1) ELSE months

relativedelta(dt1, dt2) ==
    LET months == RdMonths(dt1, dt2, MonthIndex(dt1) - MonthIndex(dt2))
        rest   == dt1 - AddMonths(dt2, months)
    IN  [years  |-> Trunc(months, MONTHS_PER_YEAR),
         months |-> months - Trunc(months, MONTHS_PER_YEAR) * MONTHS_PER_YEAR,
         days   |-> Trunc(rest, TicksPerDay),
         ticks  |-> rest - Trunc(rest, TicksPerDay) * TicksPerDay]

\* relativedelta.weeks
RdWeeks(delta) == Trunc(delta.days, DaysPerWeek)

\* ------------------------------------------------------------------ Period
\* a __new__ that forgets the swap of absolute periods
__new___noswap(start, end, absolute) == end - start

\* Period.__new__: the elapsed time handed to the base interval
__new__(start, end, absolute) ==
    IF absolute /\ start > end THEN start - end ELSE end - start

\* an inversion test that also fires on equal endpoints
PeriodInvertGeq(start, end) == start >= end

\* Period.__init__: self._invert
PeriodInvert(start, end) == start > end

\* Period.__init__: whether the endpoints are stored swapped
PeriodSwap(start, end, absolute) == PeriodInvert(start, end) /\ absolute

Period(start, end, absolute) ==
    LET swap == PeriodSwap(start, end, absolute)
        s == IF swap THEN end ELSE start
        e == IF swap THEN start ELSE end
    IN  [start    |-> s,
         end      |-> e,
         invert   |-> PeriodInvert(start, end),
         absolute |-> absolute,
         total    |-> __new__(start, end, absolute),
         delta    |-> relativedelta(e, s)]

\* BaseInterval: _sign, _days (whole days of the elapsed time, signed)
Sign(value) == IF value < 0 THEN -1 ELSE 1
IntervalDays(p) == Trunc(p.total, TicksPerDay)

weeks(p) == RdWeeks(p.delta)
days(p) == IntervalDays(p)
\* the remainder taken without abs(): a bug on negative day components
days_exclude_weeks_noabs(p) == (p.delta.days % DaysPerWeek) * Sign(IntervalDays(p))

days_exclude_weeks(p) == (Abs(p.delta.days) % DaysPerWeek) * Sign(IntervalDays(p))

\* Pendulum.start_of('day'), Pendulum.add(days=n), is_weekday / is_weekend
start_of_day(t) == t - TickOfDay(t)
add_days(t, n) == t + n * TicksPerDay
is_weekend(t) == (DayOf(t) % DaysPerWeek) \in {0, DaysPerWeek - 1}
is_weekday(t) == ~is_weekend(t)

RECURSIVE CountWeekdays(_, _, _)
\* while start <= end: if start.is_weekday(): days += 1; start = start.add(days=1)
CountWeekdays(start, end, n) ==
    IF start <= end
    THEN CountWeekdays(add_days(start, 1), end, IF is_weekday(start) THEN n + 1 ELSE n)
    ELSE n

RECURSIVE CountWeekendDays(_, _, _)
CountWeekendDays(start, end, n) ==
    IF start <= end
    THEN CountWeekendDays(add_days(start, 1), end, IF is_weekend(start) THEN n + 1 ELSE n)
    ELSE n

\* the walk always runs forward without the swap below: a bug that forgets it
in_weekdays_noswap(p) ==
    CountWeekdays(start_of_day(p.start), start_of_day(p.end), 0)
        * (IF ~p.absolute /\ p.invert THEN -1 ELSE 1)

in_weekdays(p) ==
    LET back  == ~p.absolute /\ p.invert
        start == IF back THEN start_of_day(p.end) ELSE start_of_day(p.start)
        end   == IF back THEN start_of_day(p.start) ELSE start_of_day(p.end)
    IN  CountWeekdays(start, end, 0) * (IF back THEN -1 ELSE 1)

in_weekend_days(p) ==
    LET back  == ~p.absolute /\ p.invert
        start == IF back THEN start_of_day(p.end) ELSE start_of_day(p.start)
        end   == IF back THEN start_of_day(p.start) ELSE start_of_day(p.end)
    IN  CountWeekendDays(start, end, 0) * (IF back THEN -1 ELSE 1)

\* Interval(seconds=self.total_seconds()): the elapsed time of the flat view
as_interval(p) == p.total

\* a negation that forgets to reverse the endpoints
__neg___same_order(p) == Period(p.start, p.end, p.absolute)

__neg__(p) == Period(p.end, p.start, p.absolute)

__abs__(p) == Period(p.start, p.end, TRUE)

\* a _getstate that forgets to swap the stored pair back
_getstate_noswap(p) == <<p.start, p.end, p.absolute>>

_getstate(p) ==
    IF p.invert /\ p.absolute
    THEN <<p.end, p.start, p.absolute>>
    ELSE <<p.start, p.end, p.absolute>>

\* __reduce_ex__ is (cls, state); unpickling calls cls(*state)
__reduce_ex__(p) == _getstate(p)
Reconstruct(state) == Period(state[1], state[2], state[3])

\* ------------------------------------------------------------- intersect
\* the test that skips a period, with `and` for `or`
SkipsBoth(period, start, end) == period.end < start /\ period.start > end

\* if period.end < start or period.start > end: continue
Skips(period, start, end) == period.end < start \/ period.start > end

RECURSIVE IntersectLoop(_, _, _, _, _)
\* for period in periods: ...
IntersectLoop(periods, k, start, end, has_intersection) ==
    IF k > Len(periods)
    THEN [start |-> start, end |-> end, has_intersection |-> has_intersection]
    ELSE IF Skips(periods[k], start, end)
         THEN IntersectLoop(periods, k + 1, start, end, has_intersection)
         ELSE IntersectLoop(periods, k + 1,
                            Max(start, periods[k].start),
                            Min(end, periods[k].end), TRUE)

\* None is the empty sequence, a Period p the sequence <<p>>
None == <<>>

intersect(self, periods) ==
    LET r == IntersectLoop(periods, 1, self.start, self.end, FALSE)
    IN  IF ~r.has_intersection THEN None ELSE <<Period(r.start, r.end, FALSE)>>

\* ---------------------------------------------------------------- xrange
Units == {"days", "weeks", "months"}

\* Pendulum.add(**{unit: n}) and Pendulum.subtract(**{unit: n})
add(t, unit, n) ==
    CASE unit = "days"   -> t + n * TicksPerDay
      [] unit = "weeks"  -> t + n * DaysPerWeek * TicksPerDay
      [] unit = "months" -> AddMonths(t, n)

subtract(t, unit, n) == add(t, unit, -n)

\* method = 'add' / 'subtract'
xrange_method(self) == IF ~self.absolute /\ self.invert THEN "subtract" ELSE "add"

\* a walk that always compares with <=
xrange_op_le(self) == "le"

\* op = operator.le / operator.ge
xrange_op(self) == IF ~self.absolute /\ self.invert THEN "ge" ELSE "le"

Compare(o, x, y) == IF o = "le" THEN x <= y ELSE x >= y

\* a step taken from the value yielded last instead of from self.start
xrange_step_cumulative(self, unit, start, i) ==
    IF xrange_method(self) = "add" THEN add(start, unit, 1) ELSE subtract(start, unit, 1)

\* start = getattr(self.start, method)(**{unit: i})
xrange_step(self, unit, start, i) ==
    IF xrange_method(self) = "add" THEN add(self.start, unit, i) ELSE subtract(self.start, unit, i)

\* ----------------------------------------------------------- the lifecycle
\* per: the Period at hand; args: the (start, end, absolute) its constructor
\* was called with; op: the last operation; src: the Period it was applied
\* to; ret: what the last query returned.
\* ix: a call of intersect (self, periods, result); rg: a Period and the
\* generators walking it.
NoCall == [self |-> Period(0, 0, FALSE), periods |-> <<>>, called |-> FALSE, result |-> None]
NoWalk == [pc |-> "none", unit |-> "days", start |-> 0, i |-> 0, out |-> <<>>]
NoRange == [self |-> Period(0, 0, FALSE), w |-> <<NoWalk, NoWalk>>]

Init ==
    /\ \E a \in Times, b \in Times, absolute \in BOOLEAN :
        /\ per = Period(a, b, absolute)
        /\ args = <<a, b, absolute>>
        /\ op = "init"
        /\ src = Period(a, b, absolute)
        /\ ret = 0
    /\ ix = NoCall
    /\ rg = NoRange

Negate ==
    /\ per' = __neg__(per)
    /\ args' = <<per.end, per.start, per.absolute>>
    /\ op' = "neg"
    /\ src' = per
    /\ ret' = 0
    /\ UNCHANGED <<ix, rg>>

Absolute ==
    /\ per' = __abs__(per)
    /\ args' = <<per.start, per.end, TRUE>>
    /\ op' = "abs"
    /\ src' = per
    /\ ret' = 0
    /\ UNCHANGED <<ix, rg>>

Pickle ==
    /\ per' = Reconstruct(__reduce_ex__(per))
    /\ args' = __reduce_ex__(per)
    /\ op' = "reduce"
    /\ src' = per
    /\ ret' = 0
    /\ UNCHANGED <<ix, rg>>

Query(name, value) ==
    /\ op' = name
    /\ ret' = value
    /\ src' = per
    /\ UNCHANGED <<per, args, ix, rg>>

AsInterval == Query("as_interval", as_interval(per))
InWeekdays == Query("in_weekdays", in_weekdays(per))
InWeekendDays == Query("in_weekend_days", in_weekend_days(per))
DaysExcludeWeeks == Query("days_exclude_weeks", days_exclude_weeks(per))

Next ==
    \/ Negate
    \/ Absolute
    \/ Pickle
    \/ AsInterval
    \/ InWeekdays
    \/ InWeekendDays
    \/ DaysExcludeWeeks

Spec == Init /\ [][Next]_vars

\* ------------------------------------------------- the calls of intersect
IntersectTimes == WindowFirst .. (WindowFirst + MaxSpan)
SelfPeriods ==
    {Period(a, b, absolute) : a \in IntersectTimes, b \in IntersectTimes, absolute \in BOOLEAN}
OtherPeriods == {Period(a, b, FALSE) : a \in IntersectTimes, b \in IntersectTimes}
PeriodLists == UNION {[1..n -> OtherPeriods] : n \in 0..MaxPeriods}

InitIntersect ==
    /\ per = Period(0, 0, FALSE)
    /\ args = <<0, 0, FALSE>>
    /\ op = "init"
    /\ src = Period(0, 0, FALSE)
    /\ ret = 0
    /\ rg = NoRange
    /\ \E self \in SelfPeriods, periods \in PeriodLists :
        ix = [self |-> self, periods |-> periods, called |-> FALSE, result |-> None]

Intersect ==
    /\ ~ix.called
    /\ ix' = [ix EXCEPT !.called = TRUE, !.result = intersect(ix.self, ix.periods)]
    /\ UNCHANGED <<per, args, op, src, ret, rg>>

NextIntersect == Intersect

SpecIntersect == InitIntersect /\ [][NextIntersect]_vars

\* ------------------------------------------------------ the walks of xrange
\* 1 Jan, 5 Jan, 31 Jan 2023 at 00:00 and the last tick of 31 Mar 2023
RangeTimes ==
    {DaysBefore(1) * TicksPerDay,
     (DaysBefore(1) + 4) * TicksPerDay,
     (DaysBefore(1) + 30) * TicksPerDay,
     (DaysBefore(3) + 30) * TicksPerDay + (TicksPerDay - 1)}

InitRange ==
    /\ per = Period(0, 0, FALSE)
    /\ args = <<0, 0, FALSE>>
    /\ op = "init"
    /\ src = Period(0, 0, FALSE)
    /\ ret = 0
    /\ ix = NoCall
    /\ \E a \in RangeTimes, b \in RangeTimes, absolute \in BOOLEAN :
        rg = [self |-> Period(a, b, absolute), w |-> <<NoWalk, NoWalk>>]

\* self.xrange(unit): a generator object; nothing of its body has run yet
xrange(n, unit) ==
    /\ rg.w[n].pc = "none"
    /\ rg' = [rg EXCEPT !.w[n] = [pc |-> "created", unit |-> unit,
                                  start |-> 0, i |-> 0, out |-> <<>>]]
    /\ UNCHANGED <<per, args, op, src, ret, ix>>

\* self.__iter__()
__iter__(n) == xrange(n, "days")

\* next(generator): runs the body up to the next yield, or to its end
GenNext(n) ==
    LET w     == rg.w[n]
        self  == rg.self
        start == IF w.pc = "created" THEN self.start
                 ELSE xrange_step(self, w.unit, w.start, w.i)
        i     == IF w.pc = "created" THEN 1 ELSE w.i + 1
    IN  /\ w.pc \in {"created", "suspended"}
        /\ i <= MaxSteps
        /\ rg' = [rg EXCEPT !.w[n] =
                    IF Compare(xrange_op(self), start, self.end)
                    THEN [w EXCEPT !.pc = "suspended", !.start = start, !.i = i,
                                   !.out = Append(w.out, start)]
                    ELSE [w EXCEPT !.pc = "done", !.start = start, !.i = i]]
        /\ UNCHANGED <<per, args, op, src, ret, ix>>

NextRange ==
    \/ \E unit \in Units : xrange(1, unit)
    \/ __iter__(2)
    \/ GenNext(1)
    \/ GenNext(2)

\* the caller of each walk iterates it to exhaustion
SpecRange ==
    /\ InitRange
    /\ [][NextRange]_vars
    /\ WF_vars(\E unit \in Units : xrange(1, unit))
    /\ WF_vars(__iter__(2))
    /\ WF_vars(GenNext(1))
    /\ WF_vars(GenNext(2))

\* ------------------------------------------------------------------ claims
\* the days from the earlier of a, b to the later, both truncated to the day
DaysCovered(a, b) == DayOf(Min(a, b)) .. DayOf(Max(a, b))
WeekdaysCovered(a, b) ==
    Cardinality({d \in DaysCovered(a, b) : (d % DaysPerWeek) \notin {0, DaysPerWeek - 1}})
WeekendDaysCovered(a, b) ==
    Cardinality({d \in DaysCovered(a, b) : (d % DaysPerWeek) \in {0, DaysPerWeek - 1}})

\* C1 as stated: with a <= b, Period(a, b) is not inverted and Period(b, a)
\* is inverted (equal endpoints included), and Period(b, a, absolute=true)
\* stores start = a and end = b.
C1_AsStated ==
    op = "init" =>
        /\ (~args[3] /\ args[1] <= args[2] => ~per.invert)
        /\ (~args[3] /\ args[2] <= args[1] => per.invert)
        /\ (args[3] /\ args[2] <= args[1] =>
                per.start = args[2] /\ per.end = args[1])

\* C1 (amended): a Period built in ascending or equal order is not inverted,
\* one built in strictly descending order is inverted whatever the absolute
\* flag, and an absolute Period built in descending order stores the
\* endpoints swapped (start = the earlier, end = the later).
C1_InvertAndAbsoluteOrder ==
    op = "init" =>
        /\ (args[1] <= args[2] => ~per.invert)
        /\ (args[1] > args[2] => per.invert)
        /\ (args[3] /\ args[1] >= args[2] =>
                per.start = args[2] /\ per.end = args[1])
        /\ (args[3] => per.start <= per.end)

C1_Witness ==
    /\ op = "init"
    /\ args[3]
    /\ args[1] > args[2]
    /\ per.invert
    /\ per.start = args[2]

\* C2 as stated: the elapsed time of the flat view is the signed difference
\* of the supplied end and start, with or without absolute.
C2_AsStated ==
    op = "as_interval" => ret = args[2] - args[1]

\* C2 (amended): the elapsed time of the flat view is the difference of the
\* stored end and start: the signed difference of the supplied endpoints
\* when absolute is false, its magnitude when absolute is true.
C2_TotalFollowsStoredOrder ==
    op = "as_interval" =>
        /\ ret = per.end - per.start
        /\ (~args[3] => ret = args[2] - args[1])
        /\ (args[3] => ret = Abs(args[2] - args[1]))

C2_Witness ==
    /\ op = "as_interval"
    /\ args[3]
    /\ args[1] > args[2]
    /\ ret > 0

\* C3: the Period rebuilt from the pickling triple has the start, end,
\* invert and absolute of the Period that was pickled.
C3_PickleRoundTrip ==
    op = "reduce" =>
        /\ per.start = src.start
        /\ per.end = src.end
        /\ per.invert = src.invert
        /\ per.absolute = src.absolute

C3_Witness ==
    /\ op = "reduce"
    /\ src.invert
    /\ src.absolute
    /\ src.start < src.end
    /\ per.invert

\* C7: in_weekdays / in_weekend_days return the number of weekdays (weekend
\* days) among the days from the earlier supplied endpoint to the later one,
\* both included, negated exactly when the Period is inverted and not
\* absolute.
C7_WeekdayCounts ==
    LET sign == IF ~args[3] /\ args[1] > args[2] THEN -1 ELSE 1
    IN  /\ (op = "in_weekdays" => ret = sign * WeekdaysCovered(args[1], args[2]))
        /\ (op = "in_weekend_days" => ret = sign * WeekendDaysCovered(args[1], args[2]))

C7_Witness ==
    /\ op = "in_weekdays"
    /\ ~args[3]
    /\ args[1] > args[2]
    /\ TickOfDay(args[2]) # 0
    /\ ret < -DaysPerWeek

\* C8 as stated: -p has start = p.end, end = p.start and the absolute flag
\* of p, for every p.
C8_AsStated ==
    op = "neg" =>
        /\ per.start = src.end
        /\ per.end = src.start
        /\ per.absolute = src.absolute

\* C8 (amended): -p keeps the absolute flag of p; when p is not absolute its
\* endpoints are swapped; when p is absolute the stored endpoints stay in
\* ascending order (those of p) and -p is inverted iff they differ.
C8_NegateKeepsAbsoluteOrder ==
    op = "neg" =>
        /\ per.absolute = src.absolute
        /\ (~src.absolute => per.start = src.end /\ per.end = src.start)
        /\ (src.absolute =>
                /\ per.start = src.start
                /\ per.end = src.end
                /\ per.invert = (src.start < src.end))

C8_Witness ==
    /\ op = "neg"
    /\ src.absolute
    /\ src.start < src.end
    /\ per.start = src.start

\* C9: days_exclude_weeks has magnitude at most 6, never the sign opposite
\* to days, and weeks * 7 + days_exclude_weeks is the day component of the
\* calendar decomposition.
C9_CalendarFieldsConsistent ==
    op = "days_exclude_weeks" =>
        /\ Abs(ret) \in 0 .. (DaysPerWeek - 1)
        /\ (ret > 0 => days(per) > 0)
        /\ (ret < 0 => days(per) < 0)
        /\ weeks(per) * DaysPerWeek + ret = per.delta.days

C9_Witness ==
    /\ op = "days_exclude_weeks"
    /\ per.invert
    /\ ~per.absolute
    /\ weeks(per) < 0
    /\ ret < 0
    /\ ret > -(DaysPerWeek - 1)

\* the running bounds as C4 describes them: after the first k periods
RECURSIVE RunningStart(_, _, _), RunningEnd(_, _, _)
Accepted(self, periods, k) ==
    ~(\/ periods[k].end < RunningStart(self, periods, k - 1)
      \/ periods[k].start > RunningEnd(self, periods, k - 1))
RunningStart(self, periods, k) ==
    IF k = 0 THEN self.start
    ELSE IF Accepted(self, periods, k)
         THEN Max(RunningStart(self, periods, k - 1), periods[k].start)
         ELSE RunningStart(self, periods, k - 1)
RunningEnd(self, periods, k) ==
    IF k = 0 THEN self.end
    ELSE IF Accepted(self, periods, k)
         THEN Min(RunningEnd(self, periods, k - 1), periods[k].end)
         ELSE RunningEnd(self, periods, k - 1)
AcceptedSet(self, periods) == {k \in 1..Len(periods) : Accepted(self, periods, k)}
SetMax(S) == CHOOSE x \in S : \A y \in S : y <= x
SetMin(S) == CHOOSE x \in S : \A y \in S : x <= y

SameBounds(r1, r2) ==
    \/ r1 = None /\ r2 = None
    \/ /\ r1 # None
       /\ r2 # None
       /\ r1[1].start = r2[1].start
       /\ r1[1].end = r2[1].end

PointsOf(p) == Min(p.start, p.end) .. Max(p.start, p.end)

C5_Commutative ==
    ix.called /\ Len(ix.periods) = 1 =>
        SameBounds(ix.result, intersect(ix.periods[1], <<ix.self>>))

C5_OrderIndependent ==
    ix.called /\ Len(ix.periods) = 2 =>
        SameBounds(ix.result, intersect(ix.self, <<ix.periods[2], ix.periods[1]>>))

C5_Associative ==
    ix.called /\ Len(ix.periods) = 2 =>
        LET pq == intersect(ix.self, <<ix.periods[1]>>)
            qr == intersect(ix.periods[1], <<ix.periods[2]>>)
        IN  pq # None /\ qr # None =>
                SameBounds(intersect(pq[1], <<ix.periods[2]>>),
                           intersect(ix.self, <<qr[1]>>))

C5_Disjoint ==
    ix.called /\ Len(ix.periods) = 1 =>
        (PointsOf(ix.self) \cap PointsOf(ix.periods[1]) = {} => ix.result = None)

\* C5 as stated, on periods given in ascending order (start <= end):
\* intersect is commutative, independent of the order of its arguments,
\* associative when chained, and None on disjoint periods.
C5_AsStated ==
    (~ix.self.invert /\ \A k \in 1..Len(ix.periods) : ~ix.periods[k].invert) =>
        /\ C5_Commutative
        /\ C5_OrderIndependent
        /\ C5_Associative
        /\ C5_Disjoint

\* the k-th element of the walk as C6 describes it: k units from the fixed
\* origin start, backward iff the Period is inverted and not absolute
WalksBack(self) == ~self.absolute /\ self.invert
NthFromOrigin(self, unit, k) ==
    LET n == IF WalksBack(self) THEN -k ELSE k
    IN  CASE unit = "days"   -> self.start + n * TicksPerDay
          [] unit = "weeks"  -> self.start + n * DaysPerWeek * TicksPerDay
          [] unit = "months" -> AddMonths(self.start, n)
WithinEnd(self, x) == IF WalksBack(self) THEN x >= self.end ELSE x <= self.end

\* C6: what a walk has yielded so far is start, start +/- 1 unit,
\* start +/- 2 units, ..., each computed from start and none beyond end; a
\* finished walk holds every such element that does not pass end.
C6_RangeFromFixedOrigin ==
    \A n \in 1..2 :
        LET w == rg.w[n]
        IN  /\ \A k \in 1..Len(w.out) :
                /\ w.out[k] = NthFromOrigin(rg.self, w.unit, k - 1)
                /\ WithinEnd(rg.self, w.out[k])
            /\ (w.pc = "done" =>
                    \A k \in 0..MaxSteps :
                        WithinEnd(rg.self, NthFromOrigin(rg.self, w.unit, k))
                            => k < Len(w.out))

\* 1 Jan .. 5 Jan 2023 by days: five days, the last one being end itself
C6_Witness ==
    /\ rg.self.start = DaysBefore(1) * TicksPerDay
    /\ rg.self.end = (DaysBefore(1) + 4) * TicksPerDay
    /\ rg.w[1].pc = "done"
    /\ rg.w[1].unit = "days"
    /\ Len(rg.w[1].out) = 5
    /\ rg.w[1].out[5] = rg.self.end

\* a walk that has ended having yielded exactly the elements within end
Exhausted(n) ==
    LET w == rg.w[n]
    IN  /\ w.pc = "done"
        /\ \A k \in 0..MaxSteps :
              WithinEnd(rg.self, NthFromOrigin(rg.self, w.unit, k)) <=> k < Len(w.out)
        /\ \A k \in 1..Len(w.out) : w.out[k] = NthFromOrigin(rg.self, w.unit, k - 1)

\* C10: two walks over the same Period, interleaved in any way, both end,
\* and each has then yielded its full sequence.
C10_WalksTerminateIndependently == <>[](Exhausted(1) /\ Exhausted(2))

C10_Witness ==
    /\ WalksBack(rg.self)
    /\ Exhausted(1)
    /\ Exhausted(2)
    /\ rg.w[1].unit = "months"
    /\ Len(rg.w[1].out) = 3
    /\ Len(rg.w[2].out) > 5 * DaysPerWeek
====
